---- MODULE Spec2Model ----
\* A model of update_chrome_driver: the Version type, the nom text parsers
\* (src/src/parsers.rs), the update decision and the run of main
\* (src/src/main.rs).
\*
\* Text is a sequence of one-character strings.  A u32 is a pair <<hi, lo>>
\* of 16-bit limbs (value hi * 2^16 + lo), so that the whole unsigned 32-bit
\* range, and the overflow just above it, is representable.
EXTENDS Integers, Sequences, FiniteSets, TLC

\* ------------------------------------------------------------------ u32

Limb == 2 ^ 16

\* The u32 with the (small) value n.
U(n) == <<n \div Limb, n % Limb>>

U32Max == <<Limb - 1, Limb - 1>>

\* a < b on u32.
Lt(a, b) == a[1] < b[1] \/ (a[1] = b[1] /\ a[2] < b[2])

\* a / 10 and a % 10 on u32, limb by limb.
Div10(a) ==
  LET t == (a[1] % 10) * Limb + a[2]
  IN <<a[1] \div 10, t \div 10>>

Mod10(a) == ((a[1] % 10) * Limb + a[2]) % 10

\* ----------------------------------------------------------------- text

Digits == {"0", "1", "2", "3", "4", "5", "6", "7", "8", "9"}

DigitVal(c) ==
  CASE c = "0" -> 0 [] c = "1" -> 1 [] c = "2" -> 2 [] c = "3" -> 3
    [] c = "4" -> 4 [] c = "5" -> 5 [] c = "6" -> 6 [] c = "7" -> 7
    [] c = "8" -> 8 [] c = "9" -> 9

DigitChar(d) ==
  CASE d = 0 -> "0" [] d = 1 -> "1" [] d = 2 -> "2" [] d = 3 -> "3"
    [] d = 4 -> "4" [] d = 5 -> "5" [] d = 6 -> "6" [] d = 7 -> "7"
    [] d = 8 -> "8" [] d = 9 -> "9"

\* The text from position i on.
Drop(s, i) == SubSeq(s, i, Len(s))

StartsWith(s, p) == Len(p) <= Len(s) /\ SubSeq(s, 1, Len(p)) = p

\* The length of the longest prefix of s whose characters are all in set.
RECURSIVE SpanLen(_, _)
SpanLen(s, set) ==
  IF s # <<>> /\ Head(s) \in set THEN 1 + SpanLen(Tail(s), set) ELSE 0

ChromeDriverLabel == <<"C", "h", "r", "o", "m", "e", "D", "r", "i", "v", "e", "r">>
GoogleChromeLabel == <<"G", "o", "o", "g", "l", "e", " ", "C", "h", "r", "o", "m", "e">>
WmicPreamble == <<"\r", "\r", "\n", "\r", "\r", "\n", "V", "e", "r", "s", "i", "o", "n", "=">>

\* -------------------------------------------------------------- Version

Version(major, minor, build, patch) ==
  [major |-> major, minor |-> minor, build |-> build, patch |-> patch]

\* Display for u32: the decimal digits, no sign, no leading zero.
RECURSIVE FmtU32(_)
FmtU32(n) ==
  IF n[1] = 0 /\ n[2] < 10
  THEN <<DigitChar(n[2])>>
  ELSE Append(FmtU32(Div10(n)), DigitChar(Mod10(n)))

\* Display for Version: "{}.{}.{}.{}".
VersionToString(v) ==
  FmtU32(v.major) \o <<".">> \o FmtU32(v.minor) \o <<".">>
    \o FmtU32(v.build) \o <<".">> \o FmtU32(v.patch)

\* -------------------------------------------------------------- parsers
\* A nom IResult: Ok((rest, out)) or Err(Error { input, code }).

POk(rest, out) == [ok |-> TRUE, rest |-> rest, out |-> out]
PErr(input, code) == [ok |-> FALSE, input |-> input, code |-> code]

\* str::parse::<u32> on a run of ASCII digits: the digits are accumulated
\* most significant first (acc * 10 + d); the result is an error as soon as
\* the accumulated value leaves the u32 range.
RECURSIVE FromDecAcc(_, _)
FromDecAcc(acc, s) ==
  IF s = <<>> THEN [ok |-> TRUE, val |-> acc]
  ELSE LET lo == acc[2] * 10 + DigitVal(Head(s))
           hi == acc[1] * 10 + lo \div Limb
       IN IF hi >= Limb
          THEN [ok |-> FALSE]
          ELSE FromDecAcc(<<hi, lo % Limb>>, Tail(s))

\* Variant: the digits parsed as an i32.
from_dec_i32(input) ==
  IF input = <<>> THEN [ok |-> FALSE]
  ELSE LET r == FromDecAcc(<<0, 0>>, input)
       IN IF r.ok /\ r.val[1] >= Limb \div 2 THEN [ok |-> FALSE] ELSE r

from_dec(input) ==
  IF input = <<>> THEN [ok |-> FALSE] ELSE FromDecAcc(<<0, 0>>, input)

\* nom::character::complete::digit1
digit1(input) ==
  LET n == SpanLen(input, Digits)
  IN IF n = 0 THEN PErr(input, "Digit")
     ELSE POk(Drop(input, n + 1), SubSeq(input, 1, n))

\* Variant: only the space character is skipped.
space0_spaces_only(input) ==
  LET n == SpanLen(input, {" "})
  IN POk(Drop(input, n + 1), SubSeq(input, 1, n))

\* nom::character::complete::space0: spaces and tabs.
space0(input) ==
  LET n == SpanLen(input, {" ", "\t"})
  IN POk(Drop(input, n + 1), SubSeq(input, 1, n))

\* nom::character::complete::char
char(c, input) ==
  IF input # <<>> /\ Head(input) = c
  THEN POk(Tail(input), c)
  ELSE PErr(input, "Char")

\* nom::bytes::complete::tag
tag(t, input) ==
  IF StartsWith(input, t)
  THEN POk(Drop(input, Len(t) + 1), t)
  ELSE PErr(input, "Tag")

\* Variant: a number that does not fit is taken as 0.
parse_dec_or_zero(input) ==
  LET d == digit1(input)
  IN IF ~d.ok THEN d
     ELSE LET r == from_dec(d.out)
          IN POk(d.rest, IF r.ok THEN r.val ELSE <<0, 0>>)

\* map_res(digit1, from_dec)
parse_dec(input) ==
  LET d == digit1(input)
  IN IF ~d.ok THEN d
     ELSE LET r == from_dec(d.out)
          IN IF r.ok THEN POk(d.rest, r.val) ELSE PErr(input, "MapRes")

\* tuple((parse_dec, char('.'), parse_dec, char('.'), parse_dec, char('.'),
\* parse_dec)): the first failing part is the failure of the whole.
parse_version_numbers(input) ==
  LET p1 == parse_dec(input) IN
  IF ~p1.ok THEN p1 ELSE
  LET c1 == char(".", p1.rest) IN
  IF ~c1.ok THEN c1 ELSE
  LET p2 == parse_dec(c1.rest) IN
  IF ~p2.ok THEN p2 ELSE
  LET c2 == char(".", p2.rest) IN
  IF ~c2.ok THEN c2 ELSE
  LET p3 == parse_dec(c2.rest) IN
  IF ~p3.ok THEN p3 ELSE
  LET c3 == char(".", p3.rest) IN
  IF ~c3.ok THEN c3 ELSE
  LET p4 == parse_dec(c3.rest) IN
  IF ~p4.ok THEN p4 ELSE
  POk(p4.rest, Version(p1.out, p2.out, p3.out, p4.out))

parse_version_output(input, application) ==
  LET t == tag(application, input) IN
  IF ~t.ok THEN t ELSE
  parse_version_numbers(space0(t.rest).rest)

parse_chromedriver_version_output(input) ==
  parse_version_output(input, ChromeDriverLabel)

parse_chromium_version_output(input) ==
  parse_version_output(input, GoogleChromeLabel)

parse_wmic_version(input) ==
  LET t == tag(WmicPreamble, input) IN
  IF ~t.ok THEN t ELSE
  parse_version_numbers(t.rest)

\* ------------------------------------------------------ update decision

NoVersion == [some |-> FALSE]
Some(v) == [some |-> TRUE, val |-> v]

\* Variant: versions compared as a whole, major first.
must_update_tiered(current_version, new_version) ==
  IF current_version.some
  THEN LET c == current_version.val
           n == new_version
       IN \/ Lt(c.major, n.major)
          \/ c.major = n.major /\ Lt(c.minor, n.minor)
          \/ c.major = n.major /\ c.minor = n.minor /\ Lt(c.build, n.build)
          \/ c.major = n.major /\ c.minor = n.minor /\ c.build = n.build
               /\ Lt(c.patch, n.patch)
  ELSE TRUE

must_update(current_version, new_version) ==
  IF current_version.some
  THEN \/ Lt(current_version.val.major, new_version.major)
       \/ Lt(current_version.val.minor, new_version.minor)
       \/ Lt(current_version.val.build, new_version.build)
       \/ Lt(current_version.val.patch, new_version.patch)
  ELSE TRUE

\* ------------------------------------------------------------ platform

Platforms == {"Windows", "MacOs", "Linux"}

get_key(p) ==
  CASE p = "Windows" -> <<"w", "i", "n", "3", "2">>
    [] p = "MacOs" -> <<"m", "a", "c", "6", "4">>
    [] p = "Linux" -> <<"l", "i", "n", "u", "x", "6", "4">>

\* ------------------------------------------------------------- the URLs

LatestReleaseBase ==
  <<"h", "t", "t", "p", "s", ":", "/", "/", "c", "h", "r", "o", "m", "e",
    "d", "r", "i", "v", "e", "r", ".", "s", "t", "o", "r", "a", "g", "e", ".",
    "g", "o", "o", "g", "l", "e", "a", "p", "i", "s", ".", "c", "o", "m", "/",
    "L", "A", "T", "E", "S", "T", "_", "R", "E", "L", "E", "A", "S", "E", "_">>

StorageBase ==
  <<"h", "t", "t", "p", "s", ":", "/", "/", "c", "h", "r", "o", "m", "e",
    "d", "r", "i", "v", "e", "r", ".", "s", "t", "o", "r", "a", "g", "e", ".",
    "g", "o", "o", "g", "l", "e", "a", "p", "i", "s", ".", "c", "o", "m", "/">>

\* Variant: the key with all four components.
lookup_url_with_patch(chrome_version) ==
  LatestReleaseBase \o VersionToString(chrome_version)

\* The url of get_required_driver_version:
\* format!(".../LATEST_RELEASE_{}.{}.{}", major, minor, build).
lookup_url(chrome_version) ==
  LatestReleaseBase \o FmtU32(chrome_version.major) \o <<".">>
    \o FmtU32(chrome_version.minor) \o <<".">> \o FmtU32(chrome_version.build)

get_download_url(required_version, p) ==
  StorageBase \o FmtU32(required_version.major) \o <<".">>
    \o FmtU32(required_version.minor) \o <<".">>
    \o FmtU32(required_version.build) \o <<".">>
    \o FmtU32(required_version.patch)
    \o <<"/", "c", "h", "r", "o", "m", "e", "d", "r", "i", "v", "e", "r", "_">>
    \o get_key(p) \o <<".", "z", "i", "p">>

\* ------------------------------------------- the outside world of a run
\* What the programs and the server may answer.  V(a, b, c, d) is the
\* Version with these (small) components.

V(a, b, c, d) == Version(U(a), U(b), U(c), U(d))

BrowserVersions == {V(91, 0, 4472, 0), V(91, 0, 4472, 124), V(109, 0, 5414, 87)}

\* The standard output of `chrome --version`.
BrowserOutputs ==
  {GoogleChromeLabel \o <<" ">> \o VersionToString(v) \o <<" ", "\n">> :
     v \in BrowserVersions}
  \cup {<<"C", "h", "r", "o", "m", "i", "u", "m", " ">>
          \o VersionToString(V(91, 0, 4472, 0)), <<>>}

\* The standard output of WMIC's datafile query: the Version field of the
\* file when the file is there, no field at all when it is not.
WmicOutputs(file_exists) ==
  IF file_exists
  THEN {WmicPreamble \o VersionToString(v) \o <<"\r", "\r", "\n">> :
          v \in BrowserVersions}
       \cup {<<"V", "e", "r", "s", "i", "o", "n", "=">>
               \o VersionToString(V(91, 0, 4472, 0))}
  ELSE {<<>>, <<"\r", "\r", "\n">>}

\* The standard output of `chromedriver --version`.
DriverOutputs ==
  {ChromeDriverLabel \o <<" ">> \o VersionToString(v)
     \o <<" ", "(", "a", "f", "5", "2", "@", "{", "#", "1", "}", ")", "\n">> :
     v \in {V(91, 0, 4472, 101), V(91, 0, 4472, 19), V(92, 0, 4400, 5),
            V(109, 0, 5414, 74)}}
  \cup {<<"c", "h", "r", "o", "m", "e", "d", "r", "i", "v", "e", "r", ":",
          " ", "e", "r", "r", "o", "r">>}

\* The bodies the server may send: a version, or something else.
Bodies ==
  {VersionToString(v) : v \in {V(91, 0, 4472, 101), V(109, 0, 5414, 74)}}
  \cup {<<"9", "1", ".", "0", ".", "4", "4", "7", "2">>,
        <<"<", "E", "r", "r", "o", "r", ">", "N", "o", "S", "u", "c", "h",
          "K", "e", "y", "<", "/", "E", "r", "r", "o", "r", ">">>}

Statuses == {200, 404, 500}

\* What a GET may come to: no response at all (unreachable, timeout), a
\* response whose body cannot be read, or a response with a status and a body.
Replies ==
  {[transport |-> "failed"]}
  \cup {[transport |-> "body_failed", status |-> s] : s \in Statuses}
  \cup {[transport |-> "ok", status |-> s, body |-> b] :
          s \in Statuses, b \in Bodies}

NoReply == [transport |-> "none"]

\* ------------------------------------------------ the steps of the run

Ok(value) == [ok |-> TRUE, value |-> value]
Err(kind) == [ok |-> FALSE, err |-> kind]

ErrorKinds ==
  {"ProgramDoesNotExist", "CantRunProgram", "FailedToReadOutput",
   "ParsingVersionFailed", "RequestFailed", "ZipExtractionFailed"}

\* run_program: the outcomes it may have, given whether program_path exists
\* when it is checked and what the program may print.  spawn tells whether
\* Command::output was reached and how it ended.
run_program(path_exists, stdouts) ==
  IF ~path_exists
  THEN {[ok |-> FALSE, err |-> "ProgramDoesNotExist", spawn |-> "none"]}
  ELSE {[ok |-> FALSE, err |-> "CantRunProgram", spawn |-> "failed"]}
       \cup {[ok |-> TRUE, value |-> s, spawn |-> "ok"] : s \in stdouts}

\* .map_err(|error| Error::ParsingVersionFailed(..)).map(|(_, version)| version)
VersionOf(parsed) ==
  IF parsed.ok THEN Ok(parsed.out) ELSE Err("ParsingVersionFailed")

\* get_local_browser_version, both cfg variants: the program that is run is
\* the browser itself, or WMIC on Windows.
get_local_browser_version(p, browser_there, wmic_there) ==
  IF p = "Windows"
  THEN {IF r.ok
        THEN [spawn |-> r.spawn, res |-> VersionOf(parse_wmic_version(r.value))]
        ELSE [spawn |-> r.spawn, res |-> Err(r.err)] :
          r \in run_program(wmic_there, WmicOutputs(browser_there))}
  ELSE {IF r.ok
        THEN [spawn |-> r.spawn,
              res |-> VersionOf(parse_chromium_version_output(r.value))]
        ELSE [spawn |-> r.spawn, res |-> Err(r.err)] :
          r \in run_program(browser_there, BrowserOutputs)}

\* reqwest::blocking::get(url)?.text()? followed by the parse: a reply that
\* arrived is read as text whatever its status.
get_required_driver_version(reply) ==
  IF reply.transport # "ok"
  THEN Err("RequestFailed")
  ELSE VersionOf(parse_version_numbers(reply.body))

\* The part of get_local_driver_version after its own existence check.
get_local_driver_version_run(driver_there) ==
  {IF r.ok
   THEN [spawn |-> r.spawn,
         res |-> LET p == parse_chromedriver_version_output(r.value)
                 IN IF p.ok THEN Ok(Some(p.out))
                    ELSE Err("ParsingVersionFailed")]
   ELSE [spawn |-> r.spawn, res |-> Err(r.err)] :
     r \in run_program(driver_there, DriverOutputs)}

\* download_and_extract: the GET, the opening of the archive, the extraction.
DownloadOutcomes == {Err("RequestFailed"), Err("ZipExtractionFailed"), Ok(TRUE)}

\* The exit status of `fn main() -> Result<(), Error>`.
ExitCode(res) == IF res.ok THEN 0 ELSE 1

\* ------------------------------------------------------ printed lines

BoolToString(b) ==
  IF b THEN <<"t", "r", "u", "e">> ELSE <<"f", "a", "l", "s", "e">>

RequiredLine(v) ==
  <<"R", "e", "q", "u", "i", "r", "e", "d", " ", "v", "e", "r", "s", "i",
    "o", "n", ":", " ">> \o VersionToString(v)

CurrentLine(opt) ==
  <<"C", "u", "r", "r", "e", "n", "t", " ", "v", "e", "r", "s", "i", "o",
    "n", ":", " ">>
    \o (IF opt.some THEN VersionToString(opt.val) ELSE <<"N", "o", "n", "e">>)

UpdateLine(b) ==
  <<"R", "e", "q", "u", "i", "r", "e", " ", "u", "p", "d", "a", "t", "e",
    ":", " ">> \o BoolToString(b)

DownloadLine(url) ==
  <<"D", "o", "w", "n", "l", "o", "a", "d", ":", " ">> \o url

\* ------------------------------------------------------------ the state

VARIABLES
  \* the run of main
  platform,              \* Platform::default()
  browser_exists,        \* cli.chrome_browser_path exists
  wmic_exists,           \* C:\Windows\System32\wbem\WMIC.exe exists
  driver_exists,         \* the driver executable exists in cli.output_directory
  pc,                    \* where main is
  chrome_version,        \* main's locals, NoVersion until bound
  required_version,
  local_driver_version,
  require_update,
  download_url,
  out,                   \* the lines printed on standard output
  requests,              \* the urls requested, in order
  spawns,                \* the programs Command::output was called on
  calls,                 \* the functions main has called, in order
  reply,                 \* what the lookup request came to
  extracted,             \* the archive was extracted into the output directory
  result,                \* "running", "Ok" or the Error kind main returned
  exit_code,             \* -1 while running
  \* the parsers applied to a text
  input, parsed,
  \* the Version operations applied to versions
  current_version, new_version, decision, rendered, reparsed

runVars ==
  <<platform, browser_exists, wmic_exists, driver_exists, pc, chrome_version,
    required_version, local_driver_version, require_update, download_url,
    out, requests, spawns, calls, reply, extracted, result, exit_code>>

parserVars == <<input, parsed>>

versionVars == <<current_version, new_version, decision, rendered, reparsed>>

vars == <<runVars, parserVars, versionVars>>

NotParsed == [parser |-> "none"]

ParserIdle == input = <<>> /\ parsed = NotParsed

VersionIdle ==
  /\ current_version = NoVersion
  /\ new_version = V(0, 0, 0, 0)
  /\ decision = [made |-> FALSE]
  /\ rendered = <<>>
  /\ reparsed = NotParsed

\* ------------------------------------------------------ the run of main

RunInit ==
  /\ platform \in Platforms
  /\ browser_exists \in BOOLEAN
  /\ wmic_exists \in (IF platform = "Windows" THEN BOOLEAN ELSE {FALSE})
  /\ driver_exists \in BOOLEAN
  /\ pc = "browser"
  /\ chrome_version = NoVersion
  /\ required_version = NoVersion
  /\ local_driver_version = NoVersion
  /\ require_update = FALSE
  /\ download_url = <<>>
  /\ out = <<>>
  /\ requests = <<>>
  /\ spawns = <<>>
  /\ calls = <<>>
  /\ reply = NoReply
  /\ extracted = FALSE
  /\ result = "running"
  /\ exit_code = -1

Init == RunInit /\ ParserIdle /\ VersionIdle

\* main returns: Ok(()) or, through `?`, the first Err.
Return(res) ==
  /\ result' = (IF res.ok THEN "Ok" ELSE res.err)
  /\ exit_code' = ExitCode(res)
  /\ pc' = "done"

Spawned(program, spawn) ==
  spawns' = IF spawn = "none" THEN spawns
            ELSE Append(spawns, [program |-> program, spawn |-> spawn])

\* line 13
GetLocalBrowserVersion ==
  /\ pc = "browser"
  /\ calls' = Append(calls, "get_local_browser_version")
  /\ \E o \in get_local_browser_version(platform, browser_exists, wmic_exists) :
       /\ Spawned(IF platform = "Windows" THEN "wmic" ELSE "browser", o.spawn)
       /\ IF o.res.ok
          THEN /\ chrome_version' = Some(o.res.value)
               /\ pc' = "required"
               /\ UNCHANGED <<result, exit_code>>
          ELSE /\ Return(o.res)
               /\ UNCHANGED chrome_version
  /\ UNCHANGED <<platform, browser_exists, wmic_exists, driver_exists,
                 required_version, local_driver_version, require_update,
                 download_url, out, requests, reply, extracted>>
  /\ UNCHANGED <<parserVars, versionVars>>

\* Variant: a failed lookup is tried again.
GetRequiredDriverVersion_Retry ==
  /\ pc = "required"
  /\ calls' = Append(calls, "get_required_driver_version")
  /\ requests' = Append(requests, lookup_url(chrome_version.val))
  /\ \E r \in Replies :
       /\ reply' = r
       /\ LET res == get_required_driver_version(r)
          IN IF res.ok
             THEN required_version' = Some(res.value) /\ pc' = "driver"
             ELSE UNCHANGED required_version /\ pc' = "required"
  /\ UNCHANGED <<platform, browser_exists, wmic_exists, driver_exists,
                 chrome_version, local_driver_version, require_update,
                 download_url, out, spawns, extracted, result, exit_code>>
  /\ UNCHANGED <<parserVars, versionVars>>

\* line 14
GetRequiredDriverVersion ==
  /\ pc = "required"
  /\ calls' = Append(calls, "get_required_driver_version")
  /\ requests' = Append(requests, lookup_url(chrome_version.val))
  /\ \E r \in Replies :
       /\ reply' = r
       /\ LET res == get_required_driver_version(r)
          IN IF res.ok
             THEN /\ required_version' = Some(res.value)
                  /\ pc' = "driver"
                  /\ UNCHANGED <<result, exit_code>>
             ELSE /\ Return(res)
                  /\ UNCHANGED required_version
  /\ UNCHANGED <<platform, browser_exists, wmic_exists, driver_exists,
                 chrome_version, local_driver_version, require_update,
                 download_url, out, spawns, extracted>>
  /\ UNCHANGED <<parserVars, versionVars>>

\* line 15, get_local_driver_version up to its own existence check
\* (lines 182-186).  The file system is read twice, here and in run_program,
\* and may change in between, so the call is two steps.
GetLocalDriverVersion ==
  /\ pc = "driver"
  /\ calls' = Append(calls, "get_local_driver_version")
  /\ IF ~driver_exists
     THEN local_driver_version' = NoVersion /\ pc' = "report"
     ELSE UNCHANGED local_driver_version /\ pc' = "driver_run"
  /\ UNCHANGED <<platform, browser_exists, wmic_exists, driver_exists,
                 chrome_version, required_version, require_update,
                 download_url, out, requests, spawns, reply, extracted,
                 result, exit_code>>
  /\ UNCHANGED <<parserVars, versionVars>>

\* line 15, the rest of get_local_driver_version (lines 188-192).
RunLocalDriver ==
  /\ pc = "driver_run"
  /\ \E o \in get_local_driver_version_run(driver_exists) :
       /\ Spawned("driver", o.spawn)
       /\ IF o.res.ok
          THEN /\ local_driver_version' = o.res.value
               /\ pc' = "report"
               /\ UNCHANGED <<result, exit_code>>
          ELSE /\ Return(o.res)
               /\ UNCHANGED local_driver_version
  /\ UNCHANGED <<platform, browser_exists, wmic_exists, driver_exists,
                 chrome_version, required_version, require_update,
                 download_url, out, requests, calls, reply, extracted>>
  /\ UNCHANGED <<parserVars, versionVars>>

\* Another process removes the driver executable while main runs.
RemoveDriver ==
  /\ pc \in {"browser", "required", "driver", "driver_run"}
  /\ driver_exists
  /\ driver_exists' = FALSE
  /\ UNCHANGED <<platform, browser_exists, wmic_exists, pc, chrome_version,
                 required_version, local_driver_version, require_update,
                 download_url, out, requests, spawns, calls, reply,
                 extracted, result, exit_code>>
  /\ UNCHANGED <<parserVars, versionVars>>

\* lines 16-20
Report ==
  /\ pc = "report"
  /\ calls' = Append(calls, "must_update")
  /\ LET b == must_update(local_driver_version, required_version.val)
     IN /\ require_update' = b
        /\ out' = out \o <<RequiredLine(required_version.val),
                          CurrentLine(local_driver_version),
                          UpdateLine(b)>>
  /\ pc' = "branch"
  /\ UNCHANGED <<platform, browser_exists, wmic_exists, driver_exists,
                 chrome_version, required_version, local_driver_version,
                 download_url, requests, spawns, reply, extracted, result,
                 exit_code>>
  /\ UNCHANGED <<parserVars, versionVars>>

\* Variant: the download does not depend on the decision.
Branch_AlwaysDownload ==
  /\ pc = "branch"
  /\ LET url == get_download_url(required_version.val, platform)
     IN /\ calls' = calls \o <<"must_update", "get_download_url">>
        /\ download_url' = url
        /\ out' = Append(out, DownloadLine(url))
        /\ pc' = "download"
  /\ UNCHANGED <<platform, browser_exists, wmic_exists, driver_exists,
                 chrome_version, required_version, local_driver_version,
                 require_update, requests, spawns, reply, extracted, result,
                 exit_code>>
  /\ UNCHANGED <<parserVars, versionVars>>

\* lines 22-25, and line 30 when no update is needed
Branch ==
  /\ pc = "branch"
  /\ IF must_update(local_driver_version, required_version.val)
     THEN LET url == get_download_url(required_version.val, platform)
          IN /\ calls' = calls \o <<"must_update", "get_download_url">>
             /\ download_url' = url
             /\ out' = Append(out, DownloadLine(url))
             /\ pc' = "download"
             /\ UNCHANGED <<result, exit_code>>
     ELSE /\ calls' = Append(calls, "must_update")
          /\ Return(Ok(TRUE))
          /\ UNCHANGED <<download_url, out>>
  /\ UNCHANGED <<platform, browser_exists, wmic_exists, driver_exists,
                 chrome_version, required_version, local_driver_version,
                 require_update, requests, spawns, reply, extracted>>
  /\ UNCHANGED <<parserVars, versionVars>>

\* lines 27-30
DownloadAndExtract ==
  /\ pc = "download"
  /\ calls' = Append(calls, "download_and_extract")
  /\ requests' = Append(requests, download_url)
  /\ \E res \in DownloadOutcomes :
       /\ extracted' = res.ok
       /\ Return(res)
  /\ UNCHANGED <<platform, browser_exists, wmic_exists, driver_exists,
                 chrome_version, required_version, local_driver_version,
                 require_update, download_url, out, spawns, reply>>
  /\ UNCHANGED <<parserVars, versionVars>>

Next ==
  \/ GetLocalBrowserVersion
  \/ GetRequiredDriverVersion
  \/ GetLocalDriverVersion
  \/ RunLocalDriver
  \/ RemoveDriver
  \/ Report
  \/ Branch
  \/ DownloadAndExtract

Spec == Init /\ [][Next]_vars

\* --------------------------------------------- the parsers on their own
\* The texts the parsers are applied to: a prefix, a gap, a numeric core
\* and trailing text, each possibly missing or malformed.

MaxGap == 2

RunIdle ==
  /\ platform = "Linux"
  /\ browser_exists = FALSE
  /\ wmic_exists = FALSE
  /\ driver_exists = FALSE
  /\ pc = "idle"
  /\ chrome_version = NoVersion
  /\ required_version = NoVersion
  /\ local_driver_version = NoVersion
  /\ require_update = FALSE
  /\ download_url = <<>>
  /\ out = <<>>
  /\ requests = <<>>
  /\ spawns = <<>>
  /\ calls = <<>>
  /\ reply = NoReply
  /\ extracted = FALSE
  /\ result = "running"
  /\ exit_code = -1

\* All texts over set of length at most n.
RECURSIVE TextsUpTo(_, _)
TextsUpTo(set, n) ==
  IF n = 0 THEN {<<>>}
  ELSE LET shorter == TextsUpTo(set, n - 1)
       IN shorter \cup {Append(t, c) : t \in shorter, c \in set}

Prefixes ==
  {<<>>, ChromeDriverLabel, GoogleChromeLabel, WmicPreamble,
   <<"C", "h", "r", "o", "m", "e">>, Tail(WmicPreamble)}

Gaps == TextsUpTo({" ", "\t"}, MaxGap) \cup {<<"\n">>, <<" ", "\r">>}

Dotted(a, b, c, d) == a \o <<".">> \o b \o <<".">> \o c \o <<".">> \o d

N0 == <<"0">>
N23 == <<"2", "3">>
N89 == <<"8", "9">>
N007 == <<"0", "0", "7">>
N4389 == <<"4", "3", "8", "9">>
NMax == <<"4", "2", "9", "4", "9", "6", "7", "2", "9", "5">>
NOver == <<"4", "2", "9", "4", "9", "6", "7", "2", "9", "6">>
NLong == <<"9", "9", "9", "9", "9", "9", "9", "9", "9", "9", "9">>
NZeros == <<"0", "0", "0", "0", "0", "0", "0", "0", "0", "0", "0", "1">>

Cores ==
  { Dotted(N89, N0, N4389, N23),
    Dotted(<<"1", "0", "9">>, N0, <<"5", "4", "1", "4">>, <<"8", "7">>),
    Dotted(N0, N0, N0, N0),
    Dotted(NMax, N007, <<"6", "5", "5", "3", "6">>, NMax),
    Dotted(NZeros, N0, N0, <<"4", "2", "9", "4", "9", "6", "7", "2", "9">>),
    Dotted(N89, N0, N4389, NOver),
    Dotted(NOver, N0, N0, N0),
    Dotted(N0, NLong, N0, N0),
    N89 \o <<".">> \o N0 \o <<".">> \o N4389,
    N89 \o <<".">> \o N0 \o <<".">> \o N4389 \o <<".">>,
    Dotted(N89, <<>>, N4389, N23),
    Dotted(<<>>, N0, N4389, N23),
    <<>>,
    N89 \o <<",">> \o N0 \o <<",">> \o N4389 \o <<",">> \o N23,
    Dotted(N89, N0, <<"4", "3", " ", "8", "9">>, N23),
    Dotted(N89, N0, <<"-", "1">>, N23),
    Dotted(<<"+", "8", "9">>, N0, N4389, N23) }

Trails ==
  {<<>>,
   <<" ", "(", "6", "1", "b", "-", "r", "e", "f", "s", "@", "{", "#", "2",
     "9", "4", "}", ")">>,
   <<"5">>, <<".", "7">>, <<"\r", "\r", "\n">>}

Inputs == {p \o g \o c \o t : p \in Prefixes, g \in Gaps, c \in Cores, t \in Trails}

ParserInit ==
  /\ RunIdle
  /\ VersionIdle
  /\ input \in Inputs
  /\ parsed = NotParsed

Parsed(name, res) ==
  /\ parsed = NotParsed
  /\ parsed' = [parser |-> name, res |-> res]
  /\ UNCHANGED <<input, runVars, versionVars>>

ParseVersionNumbers ==
  Parsed("parse_version_numbers", parse_version_numbers(input))

ParseChromedriverVersionOutput ==
  Parsed("parse_chromedriver_version_output",
         parse_chromedriver_version_output(input))

ParseChromiumVersionOutput ==
  Parsed("parse_chromium_version_output",
         parse_chromium_version_output(input))

ParseWmicVersion ==
  Parsed("parse_wmic_version", parse_wmic_version(input))

ParserNext ==
  \/ ParseVersionNumbers
  \/ ParseChromedriverVersionOutput
  \/ ParseChromiumVersionOutput
  \/ ParseWmicVersion

ParserSpec == ParserInit /\ [][ParserNext]_vars

\* ------------------------------------- the Version operations on their own

Majors == {U(0), U(89), U(90)}
Minors == {U(0), U(1)}
Builds == {U(4389), U(65536)}
Patches == {U(0), U(10), U(23), U32Max}

Versions ==
  {Version(a, b, c, d) : a \in Majors, b \in Minors, c \in Builds, d \in Patches}

NotDecided == [made |-> FALSE]

VersionInit ==
  /\ RunIdle
  /\ ParserIdle
  /\ current_version \in {NoVersion} \cup {Some(v) : v \in Versions}
  /\ new_version \in Versions
  /\ decision = NotDecided
  /\ rendered = <<>>
  /\ reparsed = NotParsed

\* must_update(&current_version, &new_version)
Decide ==
  /\ ~decision.made
  /\ decision' = [made |-> TRUE,
                  value |-> must_update(current_version, new_version)]
  /\ UNCHANGED <<current_version, new_version, rendered, reparsed>>
  /\ UNCHANGED <<runVars, parserVars>>

\* new_version.to_string()
Render ==
  /\ rendered = <<>>
  /\ rendered' = VersionToString(new_version)
  /\ UNCHANGED <<current_version, new_version, decision, reparsed>>
  /\ UNCHANGED <<runVars, parserVars>>

\* parse_version_numbers on the rendered text
Reparse ==
  /\ rendered # <<>>
  /\ reparsed = NotParsed
  /\ reparsed' = [parser |-> "parse_version_numbers",
                  res |-> parse_version_numbers(rendered)]
  /\ UNCHANGED <<current_version, new_version, decision, rendered>>
  /\ UNCHANGED <<runVars, parserVars>>

VersionNext == Decide \/ Render \/ Reparse

VersionSpec == VersionInit /\ [][VersionNext]_vars

\* ============================================================ properties

Last(s) == s[Len(s)]

\* main returned the error of its call of fn.
FailedIn(fn) == result \in ErrorKinds /\ calls # <<>> /\ Last(calls) = fn

\* ---------------------------------------------------------------- C2
\* A reply is a transport failure when nothing arrived, the body could not
\* be read, or the status is not a success.
TransportFailure(r) ==
  r.transport # "ok" \/ r.status \notin 200..299

\* C2 (as claimed): once the lookup request has been answered, every
\* transport failure, a non-success status included, is reported as
\* RequestFailed, and ParsingVersionFailed is reported by the lookup only for
\* a reply that arrived with a success status.
C2_TransportFailureIsRequestFailed ==
  reply # NoReply =>
    /\ TransportFailure(reply) => result = "RequestFailed"
    /\ (FailedIn("get_required_driver_version")
          /\ result = "ParsingVersionFailed") => ~TransportFailure(reply)

\* ---------------------------------------------------------------- C3
MainOrder ==
  <<"get_local_browser_version", "get_required_driver_version",
    "get_local_driver_version", "must_update", "must_update",
    "get_download_url", "download_and_extract">>

IsPrefix(s, t) == Len(s) <= Len(t) /\ SubSeq(t, 1, Len(s)) = s

\* C3: main calls its steps in the order browser version, required version,
\* local driver version, decision, download; a step is called only while no
\* step has failed and the values of the earlier steps are there; a failing
\* step prints nothing, ends the run with a non-zero exit status, and after
\* the run has ended nothing is called, requested, run or printed.
C3_FirstFailureEndsRun ==
  [][/\ result # "running" => UNCHANGED vars
     /\ calls' # calls =>
          /\ result = "running"
          /\ IsPrefix(calls', MainOrder)
          /\ Len(calls) >= 1 => chrome_version.some
          /\ Len(calls) >= 2 => required_version.some /\ reply.transport = "ok"
          /\ Len(calls) >= 3 => pc \in {"report", "branch", "download"}
     /\ result' \in ErrorKinds =>
          /\ exit_code' # 0
          /\ pc' = "done"
          /\ out' = out
          /\ ~extracted']_vars

C3_Witness ==
  /\ FailedIn("get_required_driver_version")
  /\ result = "RequestFailed"
  /\ exit_code = 1
  /\ out = <<>>

\* ---------------------------------------------------------------- C4
ReadsSucceeded ==
  pc \in {"branch", "download"} \/ (pc = "done" /\ Len(calls) >= 5)

\* C4: once the three reads have succeeded, the lines printed are the
\* required version, the current version (or None) and the decision, in this
\* order; the download is requested exactly when the printed decision is
\* true, after a fourth line with the download url; with a decision of false
\* there is no fourth line and no download request.
C4_ReportThenDownload ==
  ReadsSucceeded =>
    LET printed_true == out[3] = UpdateLine(TRUE)
        url == get_download_url(required_version.val, platform)
    IN /\ Len(out) \in {3, 4}
       /\ out[1] = RequiredLine(required_version.val)
       /\ out[2] = CurrentLine(local_driver_version)
       /\ ~local_driver_version.some =>
            out[2] = <<"C", "u", "r", "r", "e", "n", "t", " ", "v", "e", "r",
                       "s", "i", "o", "n", ":", " ", "N", "o", "n", "e">>
       /\ out[3] \in {UpdateLine(TRUE), UpdateLine(FALSE)}
       /\ Len(out) = 4 => out[4] = DownloadLine(url)
       /\ pc = "branch" => Len(out) = 3 /\ Len(requests) = 1
       /\ pc = "download" =>
            printed_true /\ Len(out) = 4 /\ Len(requests) = 1 /\ ~extracted
       /\ pc = "done" =>
            IF printed_true
            THEN Len(out) = 4 /\ Len(requests) = 2 /\ requests[2] = url
            ELSE Len(out) = 3 /\ Len(requests) = 1 /\ ~extracted
                 /\ result = "Ok"

C4_Witness ==
  /\ pc = "done"
  /\ result = "Ok"
  /\ extracted
  /\ Len(out) = 4
  /\ local_driver_version.some

\* ---------------------------------------------------------------- C5
\* C5 (as claimed): when the browser executable does not exist,
\* get_local_browser_version fails with ProgramDoesNotExist on every
\* platform, and no request has been made.
C5_MissingBrowserIsReported ==
  (calls # <<>> /\ ~browser_exists) =>
    /\ result = "ProgramDoesNotExist"
    /\ requests = <<>>

\* ---------------------------------------------------------------- C6
\* C6 (as claimed): get_local_driver_version never fails while the driver
\* executable is absent, it returns None then; and it fails with
\* CantRunProgram when the executable is there but cannot be launched.
C6_AbsentDriverIsNoError ==
  /\ ~driver_exists => ~FailedIn("get_local_driver_version")
  /\ (pc = "report" /\ ~driver_exists) => local_driver_version = NoVersion
  /\ (spawns # <<>> /\ Last(spawns) = [program |-> "driver", spawn |-> "failed"])
       => result = "CantRunProgram"

\* ---------------------------------------------------------------- C7
CheckVersions ==
  {V(a, b, c, d) : a \in {9, 91, 109}, b \in {0, 1, 10},
                   c \in {472, 4472, 5414}, d \in {0, 87, 124}}

Url91 ==
  <<"h", "t", "t", "p", "s", ":", "/", "/", "c", "h", "r", "o", "m", "e",
    "d", "r", "i", "v", "e", "r", ".", "s", "t", "o", "r", "a", "g", "e", ".",
    "g", "o", "o", "g", "l", "e", "a", "p", "i", "s", ".", "c", "o", "m", "/",
    "L", "A", "T", "E", "S", "T", "_", "R", "E", "L", "E", "A", "S", "E", "_",
    "9", "1", ".", "0", ".", "4", "4", "7", "2">>

\* C7: the url of the lookup request is the one of exactly the versions that
\* agree with the browser version in major, minor and build, whatever the
\* patch; for 91.0.4472.0 it ends in LATEST_RELEASE_91.0.4472.
C7_LookupKeyOmitsPatch ==
  requests # <<>> =>
    LET b == chrome_version.val
    IN /\ \A w \in CheckVersions :
            (lookup_url(w) = requests[1])
              <=> (w.major = b.major /\ w.minor = b.minor /\ w.build = b.build)
       /\ b = V(91, 0, 4472, 0) => requests[1] = Url91

C7_Witness ==
  /\ requests # <<>>
  /\ chrome_version = Some(V(91, 0, 4472, 124))
  /\ requests[1] = Url91

\* ------------------------------------------- decimal texts, declaratively

\* A digit text without its leading zeros (a single 0 is kept).
RECURSIVE StripZeros(_)
StripZeros(s) ==
  IF Len(s) > 1 /\ Head(s) = "0" THEN StripZeros(Tail(s)) ELSE s

\* a before b, for digit texts of the same length.
RECURSIVE LexLess(_, _)
LexLess(a, b) ==
  /\ a # <<>>
  /\ \/ DigitVal(Head(a)) < DigitVal(Head(b))
     \/ Head(a) = Head(b) /\ LexLess(Tail(a), Tail(b))

\* The number written a is less than the number written b (no leading zeros).
DecLess(a, b) == Len(a) < Len(b) \/ (Len(a) = Len(b) /\ LexLess(a, b))

\* The number written by the digits s is at most 4294967295.
FitsU32(s) == ~DecLess(FmtU32(U32Max), StripZeros(s))

DotPos(c) == {i \in 1..Len(c) : c[i] = "."}

\* The k-th of the parts of c that the dots separate.
Bound(c, k) ==
  IF k = 0 THEN 0
  ELSE IF k > Cardinality(DotPos(c)) THEN Len(c) + 1
  ELSE CHOOSE i \in DotPos(c) : Cardinality({j \in DotPos(c) : j < i}) = k - 1

Seg(c, k) == SubSeq(c, Bound(c, k - 1) + 1, Bound(c, k) - 1)

\* c is four non-empty runs of digits separated by three dots.
IsCore(c) ==
  /\ \A i \in 1..Len(c) : c[i] \in Digits \cup {"."}
  /\ Cardinality(DotPos(c)) = 3
  /\ \A k \in 1..4 : Seg(c, k) # <<>>

Components(v) == <<v.major, v.minor, v.build, v.patch>>

\* The version v has exactly the values written in the core c.
ValuesOf(c, v) ==
  \A k \in 1..4 :
    /\ Components(v)[k] \in (0..(Limb - 1)) \X (0..(Limb - 1))
    /\ FmtU32(Components(v)[k]) = StripZeros(Seg(c, k))

\* ---------------------------------------------------------------- C1
Fields == {"major", "minor", "build", "patch"}

\* C1: must_update is true exactly when there is no local version or some
\* component of the local version is less than the same component of the
\* required one; so false for equal versions, true for 90.0.4389.10 against
\* 89.0.4389.23.
C1_MustUpdate ==
  decision.made =>
    /\ decision.value =
         (\/ ~current_version.some
          \/ \E f \in Fields :
               DecLess(FmtU32(current_version.val[f]), FmtU32(new_version[f])))
    /\ current_version = Some(new_version) => ~decision.value
    /\ (current_version = Some(V(90, 0, 4389, 10))
          /\ new_version = V(89, 0, 4389, 23)) => decision.value

C1_Witness ==
  /\ decision.made
  /\ decision.value
  /\ current_version = Some(V(90, 0, 4389, 10))
  /\ new_version = V(89, 0, 4389, 23)

\* ---------------------------------------------------------------- C8
\* C8: parsing the rendering of a version with parse_version_numbers
\* succeeds, gives the version back and leaves nothing over.
C8_RoundTrip ==
  reparsed # NotParsed =>
    /\ rendered = VersionToString(new_version)
    /\ reparsed.res.ok
    /\ reparsed.res.out = new_version
    /\ reparsed.res.rest = <<>>

C8_Witness ==
  /\ reparsed # NotParsed
  /\ reparsed.res.ok
  /\ new_version = Version(U(0), U(1), U(65536), U32Max)

\* ---------------------------------------------------------------- C9
LabelOf(parser) ==
  IF parser = "parse_chromedriver_version_output"
  THEN ChromeDriverLabel ELSE GoogleChromeLabel

\* The ways to read text as label, k characters of ws, a numeric core of n
\* characters whose numbers are whole runs of digits that fit a u32, and
\* trailing text.
Readings(text, label, ws) ==
  IF ~StartsWith(text, label) THEN {}
  ELSE LET after == Drop(text, Len(label) + 1)
       IN {kn \in (0..Len(after)) \X (1..Len(after)) :
             LET k == kn[1]
                 n == kn[2]
                 core == SubSeq(after, k + 1, k + n)
             IN /\ k + n <= Len(after)
                /\ \A i \in 1..k : after[i] \in ws
                /\ IsCore(core)
                /\ k + n = Len(after) \/ after[k + n + 1] \notin Digits
                /\ \A j \in 1..4 : FitsU32(Seg(core, j))}

DriverExample ==
  ChromeDriverLabel \o <<" ">> \o Dotted(N89, N0, N4389, N23)
    \o <<" ", "(", "6", "1", "b", "-", "r", "e", "f", "s", "@", "{", "#",
         "2", "9", "4", "}", ")">>

BrowserExample ==
  GoogleChromeLabel \o <<" ">>
    \o Dotted(<<"1", "0", "9">>, N0, <<"5", "4", "1", "4">>, <<"8", "7">>)

\* The labeled parsers succeed exactly on the texts that have a reading with
\* gap characters ws, and return the numbers and the trailing text of it.
LabeledFormat(ws) ==
  parsed.parser \in {"parse_chromedriver_version_output",
                     "parse_chromium_version_output"} =>
    LET label == LabelOf(parsed.parser)
        after == Drop(input, Len(label) + 1)
        rs == Readings(input, label, ws)
    IN /\ parsed.res.ok <=> rs # {}
       /\ parsed.res.ok =>
            \A kn \in rs :
              /\ ValuesOf(SubSeq(after, kn[1] + 1, kn[1] + kn[2]),
                          parsed.res.out)
              /\ parsed.res.rest = Drop(after, kn[1] + kn[2] + 1)
       /\ (input = DriverExample
             /\ parsed.parser = "parse_chromedriver_version_output")
            => parsed.res.ok /\ parsed.res.out = V(89, 0, 4389, 23)
       /\ (input = BrowserExample
             /\ parsed.parser = "parse_chromium_version_output")
            => parsed.res.ok /\ parsed.res.out = V(109, 0, 5414, 87)

\* C9 (as claimed): the gap between the label and the numbers is made of
\* space characters and of no other character.
C9_GapOfSpacesOnly == LabeledFormat({" "})

\* C9 (amended): the gap is made of spaces and tabs.
C9_GapOfSpacesAndTabs == LabeledFormat({" ", "\t"})

C9_Witness ==
  /\ parsed.parser = "parse_chromedriver_version_output"
  /\ parsed.res.ok
  /\ StartsWith(input, ChromeDriverLabel \o <<" ", "\t">>)
  /\ parsed.res.rest # <<>>

\* --------------------------------------------------------------- C10
LiteralOf(parser) ==
  CASE parser = "parse_version_numbers" -> <<>>
    [] parser = "parse_wmic_version" -> WmicPreamble
    [] OTHER -> LabelOf(parser)

\* Where the last run of digits and dots of s starts.
CoreStart(s) ==
  LET others == {i \in 1..Len(s) : s[i] \notin Digits \cup {"."}}
  IN IF others = {} THEN 1
     ELSE 1 + CHOOSE i \in others : \A j \in others : j <= i

\* C10: a parser that succeeds has matched its literal prefix and, at the
\* end of what it consumed, four numbers separated by three dots; every
\* component of the Version is a u32 equal to the number written by the
\* digits matched; a parser that fails returns no Version, as on 89.0.4389.
C10_NoPartialSuccess ==
  parsed.parser # "none" =>
    LET res == parsed.res
        lit == LiteralOf(parsed.parser)
    IN /\ IF res.ok
          THEN LET n == Len(input) - Len(res.rest)
                   consumed == SubSeq(input, 1, n)
                   core == Drop(consumed, CoreStart(consumed))
               IN /\ n >= 0
                  /\ Drop(input, n + 1) = res.rest
                  /\ StartsWith(input, lit)
                  /\ CoreStart(consumed) > Len(lit)
                  /\ IsCore(core)
                  /\ \A k \in 1..4 : FitsU32(Seg(core, k))
                  /\ ValuesOf(core, res.out)
          ELSE "out" \notin DOMAIN res
       /\ input = N89 \o <<".">> \o N0 \o <<".">> \o N4389 => ~res.ok

C10_Witness ==
  /\ parsed.parser = "parse_wmic_version"
  /\ parsed.res.ok
  /\ parsed.res.out.major = U32Max
  /\ parsed.res.out.minor = U(7)

====
